---- MODULE Spec2Model ----
(***************************************************************************)
(* Model of ParallelLLM (src/src/mcp_agent/workflows/parallel/             *)
(* parallel_llm.py): the fan-out / fan-in coordinator and its three        *)
(* generation modes generate, generate_str and generate_structured.        *)
(*                                                                         *)
(* FanOut (mcp_agent.workflows.parallel.fan_out) and FanInLLM              *)
(* (mcp_agent.workflows.parallel.fan_in) are imported by the coordinator   *)
(* but their code is not part of the sources at hand; the definitions      *)
(* that stand for them follow spec.md sections 4.1, 4.2, 6 and 7.          *)
(*                                                                         *)
(* Python semantics used by the model: an instance attribute that         *)
(* __init__ never assigned raises AttributeError when read, and `await v`  *)
(* on a value v that is not awaitable raises TypeError.  The base class    *)
(* AugmentedLLM is taken to define neither fan_in_fn nor fan_in, and Agent *)
(* and AugmentedLLM objects are taken not to be callable.                  *)
(***************************************************************************)
EXTENDS Integers, Sequences, FiniteSets, TLC

\* ------------------------------------------------------------------ bounds
MaxAgents == 2      \* longest fan_out_agents list explored
MaxFunctions == 1   \* longest fan_out_functions list explored
MaxCalls == 2       \* call slots of the concurrent specification

MaxUnits == MaxAgents + MaxFunctions
Units == 1..MaxUnits
Calls == 1..MaxCalls

\* ------------------------------------------------------- program constants
DefaultMaxIterations == 10
DefaultMaxTokens == 2048

\* ------------------------------------------------------------------ values
\* A Python value is a record [t, v]: t is its type, v its textual form.
StrVal(s) == [t |-> "str", v |-> s]
IntVal(s) == [t |-> "int", v |-> s]
ListVal(s) == [t |-> "list", v |-> s]
ModelVal(rm, s) == [t |-> rm, v |-> s]
NoneVal == [t |-> "NoneType", v |-> "None"]

Digits == <<"1", "2", "3", "4", "5", "6", "7", "8", "9">>
IntText(n) == IF n = 0 THEN "0" ELSE IF n <= 9 THEN Digits[n] ELSE "many"

\* "|".join(responses)
RECURSIVE JoinBar(_)
JoinBar(s) ==
    IF Len(s) = 0 THEN ""
    ELSE IF Len(s) = 1 THEN s[1]
    ELSE s[1] \o "|" \o JoinBar(Tail(s))

\* repr of a list of strings, as Python prints it: ['A', 'B']
RECURSIVE ReprItems(_)
ReprItems(s) ==
    IF Len(s) = 0 THEN ""
    ELSE IF Len(s) = 1 THEN "'" \o s[1] \o "'"
    ELSE "'" \o s[1] \o "', " \o ReprItems(Tail(s))
ReprList(s) == "[" \o ReprItems(s) \o "]"

\* str(value)
PyStr(val) == StrVal(val.v)

IsStr(val) == val.t = "str"

\* ------------------------------------------------------- generation params
NoModel == [some |-> FALSE, val |-> ""]
NoStops == [some |-> FALSE, val |-> <<>>]

\* the defaults of the keyword parameters of generate*
DefaultParams ==
    [use_history |-> TRUE, max_iterations |-> DefaultMaxIterations,
     model |-> NoModel, stop_sequences |-> NoStops,
     max_tokens |-> DefaultMaxTokens, parallel_tool_calls |-> TRUE]

\* a caller overriding every keyword parameter
CustomParams ==
    [use_history |-> FALSE, max_iterations |-> 3,
     model |-> [some |-> TRUE, val |-> "m1"],
     stop_sequences |-> [some |-> TRUE, val |-> <<"END">>],
     max_tokens |-> 64, parallel_tool_calls |-> FALSE]

CallerParams == {DefaultParams, CustomParams}

Messages == {"X", "Y"}
Modes == {"generate", "generate_str", "generate_structured"}
NoResponseModel == "-"
ResponseModels == {"Verdict"}

\* -------------------------------------------------- constructor arguments
\* What the caller supplies as fan_in_agent:
\*   kind "agent"   an Agent / AugmentedLLM (the aggregator unit)
\*   kind "fn"      a function; is_async tells whether calling it yields an
\*                  awaitable (async def) or the combined value itself (def);
\*                  body names what it computes from the responses
\*   kind "none"    None passed explicitly
\*   kind "missing" the argument omitted
FanInValue(k, a, b) == [kind |-> k, is_async |-> a, body |-> b]
AggregatorAgent == FanInValue("agent", FALSE, "-")
NoneFanIn == FanInValue("none", FALSE, "-")
MissingFanIn == FanInValue("missing", FALSE, "-")
FnBodies == {"join", "count"}
FanInFunctions == {FanInValue("fn", a, b) : a \in BOOLEAN, b \in FnBodies}
FanInChoices == {AggregatorAgent, NoneFanIn, MissingFanIn} \cup FanInFunctions

\* fan_out_agents / fan_out_functions: a list (possibly empty) or None.
\* A list is given by its length; the k-th configured unit is unit k.
ListArg(n) == [some |-> TRUE, len |-> n]
NoneList == [some |-> FALSE, len |-> 0]
AgentListChoices == {NoneList} \cup {ListArg(n) : n \in 0..MaxAgents}
FunctionListChoices == {NoneList} \cup {ListArg(n) : n \in 0..MaxFunctions}

ListLen(l) == IF l.some THEN l.len ELSE 0

\* ------------------------------------------------------ ParallelLLM.__init__
\* An instance attribute: either never assigned, or holding a value.
Unset == [set |-> FALSE, val |-> NoneFanIn]
Attr(v) == [set |-> TRUE, val |-> v]

\* isinstance(fan_in_agent, Callable): functions are callable; Agent and
\* AugmentedLLM objects and None are not.
IsCallable(v) == v.kind = "fn"

\* bool(v) of a fan-in value: None is falsy, objects and functions truthy.
Truthy(v) == v.kind # "none"

\* FanInLLM(aggregator_agent=...): the Fan-In stage needs an aggregator unit
\* (spec.md section 7, ConfigurationError).
FanInLLM_init(aggregator_agent) ==
    [ok |-> aggregator_agent.kind = "agent", aggregator_agent |-> aggregator_agent]

\* FanOut(agents=..., functions=...): at least one unit must be configured
\* (spec.md sections 4.1 and 7); the units are the agents followed by the
\* functions.
FanOut_init(agents, functions) ==
    [ok |-> ListLen(agents) + ListLen(functions) >= 1,
     n_agents |-> ListLen(agents), n_functions |-> ListLen(functions)]

NoFanOut == [ok |-> FALSE, n_agents |-> 0, n_functions |-> 0]
NoFanIn == [ok |-> FALSE, aggregator_agent |-> NoneFanIn]

\* The object before __init__ has assigned anything.
Blank(fan_in_agent, fan_out_agents, fan_out_functions) ==
    [constructed |-> FALSE, error |-> "",
     fan_in_agent |-> fan_in_agent,
     fan_out_agents |-> fan_out_agents,
     fan_out_functions |-> fan_out_functions,
     history |-> NoneVal,
     fan_in_fn |-> Unset,
     fan_in |-> [set |-> FALSE, val |-> NoFanIn],
     fan_out |-> [set |-> FALSE, val |-> NoFanOut]]

\* A variant of __init__ that does not build the FanOut stage's checks in:
\* any unit lists are accepted.
ParallelLLM_init_Unchecked(fan_in_agent, fan_out_agents, fan_out_functions) ==
    [Blank(fan_in_agent, fan_out_agents, fan_out_functions) EXCEPT
        !.constructed = TRUE,
        !.fan_in_fn = IF IsCallable(fan_in_agent) THEN Attr(fan_in_agent) ELSE Unset,
        !.fan_in = IF IsCallable(fan_in_agent) THEN @
                   ELSE [set |-> TRUE,
                         val |-> [ok |-> TRUE, aggregator_agent |-> fan_in_agent]],
        !.fan_out = [set |-> TRUE,
                     val |-> [ok |-> TRUE,
                              n_agents |-> ListLen(fan_out_agents),
                              n_functions |-> ListLen(fan_out_functions)]]]

\* ParallelLLM.__init__ (lines 44-81).  fan_in_agent has no default, so a
\* call without it raises TypeError before the body runs.  The body assigns
\* fan_in_fn only for a callable and fan_in only otherwise; a constructor of
\* a stage that raises makes the whole construction fail.
ParallelLLM_init(fan_in_agent, fan_out_agents, fan_out_functions) ==
    LET blank == Blank(fan_in_agent, fan_out_agents, fan_out_functions)
        fan_in == FanInLLM_init(fan_in_agent)
        fan_out == FanOut_init(fan_out_agents, fan_out_functions)
        s1 == IF IsCallable(fan_in_agent)
              THEN [blank EXCEPT !.fan_in_fn = Attr(fan_in_agent)]
              ELSE [blank EXCEPT !.fan_in = [set |-> TRUE, val |-> fan_in]]
    IN  IF fan_in_agent.kind = "missing"
        THEN [blank EXCEPT !.error = "TypeError"]
        ELSE IF ~IsCallable(fan_in_agent) /\ ~fan_in.ok
        THEN [blank EXCEPT !.error = "ConfigurationError"]
        ELSE IF ~fan_out.ok
        THEN [s1 EXCEPT !.error = "ConfigurationError"]
        ELSE [s1 EXCEPT !.constructed = TRUE,
                        !.fan_out = [set |-> TRUE, val |-> fan_out]]

\* number of configured Fan-Out units of an instance
NumUnits(self) == self.fan_out.val.n_agents + self.fan_out.val.n_functions
UnitsOf(self) == 1..NumUnits(self)

\* ------------------------------------------------------------------- state
VARIABLES
    self,         \* the ParallelLLM object, as __init__ left it
    pc,           \* per call: "idle", "fan_out", "fan_in", "done", "failed"
    args,         \* per call: what the caller passed (mode, message, params, ...)
    fanOutCalls,  \* per call: the invocations made on self.fan_out
    task,         \* per call and unit: state of the unit's Fan-Out task
    output,       \* per call and unit: what the unit's task returned, "" if nothing yet
    order,        \* per call: the units in the order their tasks completed
    responses,    \* per call: the local `responses`
    fanInCalls,   \* per call: the invocations made on fan_in_fn / self.fan_in
    result,       \* per call: the value returned
    error         \* per call: the exception raised, "" if none

vars == <<self, pc, args, fanOutCalls, task, output, order, responses,
          fanInCalls, result, error>>

NoArgs ==
    [mode |-> "generate", message |-> "", params |-> DefaultParams,
     response_model |-> NoResponseModel]

InFlight(c) == pc[c] \in {"fan_out", "fan_in"}
Finished(c) == pc[c] \in {"done", "failed"}

\* ------------------------------------------------------ Generation Units
\* What unit i returns for a message (the units are external; each returns
\* a fixed text of its own per message, as in spec.md section 8, Scenario A).
UpperLetters == <<"A", "B", "C", "D", "E", "F", "G", "H">>
LowerLetters == <<"a", "b", "c", "d", "e", "f", "g", "h">>
UnitOutput(i, message) ==
    IF message = "X" THEN UpperLetters[i] ELSE LowerLetters[i]

\* What a reduction function computes from the ordered responses.
FnValue(fn, rs) ==
    IF fn.body = "join" THEN StrVal(JoinBar(rs)) ELSE IntVal(IntText(Len(rs)))

\* What the aggregator unit's modes return (spec.md section 4.2): a raw
\* result, a string, an instance of response_model.
AggregatorValue(op, rs, rm) ==
    IF op = "generate" THEN ListVal(ReprList(rs))
    ELSE IF op = "generate_str" THEN StrVal(JoinBar(rs))
    ELSE ModelVal(rm, JoinBar(rs))

\* ---------------------------------------------------------------- Dispatch
\* A coordinator that invokes the Fan-Out stage with the default parameters.
FanOutRequest_Defaults(mode, message, params, response_model) ==
    [op |-> "generate", message |-> message, params |-> DefaultParams]

\* A coordinator that dispatches with the Fan-Out variant of its own mode.
FanOutRequest_PerMode(mode, message, params, response_model) ==
    [op |-> mode, message |-> message, params |-> params]

\* A coordinator whose dispatch depends on its Fan-In side: built with a
\* function, it leaves the caller's parameters out of the Fan-Out invocation.
FanOutRequest_ByFanIn(mode, message, params, response_model) ==
    [op |-> "generate", message |-> message,
     params |-> IF IsCallable(self.fan_in_agent) THEN DefaultParams ELSE params]

\* The invocation self.fan_out.generate(message=..., use_history=..., ...)
\* made first by each of the three modes (lines 94-102, 133-141, 171-179).
FanOutRequest(mode, message, params, response_model) ==
    [op |-> "generate", message |-> message, params |-> params]

\* A coordinator that falls back to invoking the units one after the other:
\* only the first unit's invocation is started by the call.
Generate_Sequential(c, mode, message, params, response_model) ==
    /\ self.constructed
    /\ pc[c] = "idle"
    /\ pc' = [pc EXCEPT ![c] = "fan_out"]
    /\ args' = [args EXCEPT ![c] =
                  [mode |-> mode, message |-> message, params |-> params,
                   response_model |-> response_model]]
    /\ fanOutCalls' = [fanOutCalls EXCEPT ![c] =
                  Append(@, [op |-> "generate", message |-> message, params |-> params])]
    /\ task' = [task EXCEPT ![c] = [i \in Units |-> IF i = 1 THEN "pending" ELSE "none"]]
    /\ UNCHANGED <<self, output, order, responses, fanInCalls, result, error>>

\* A coordinator that keeps a running history: what earlier calls returned
\* is put in front of the message given to the Fan-Out stage.
RECURSIVE EarlierResults(_)
EarlierResults(cs) ==
    IF cs = {} THEN ""
    ELSE LET d == CHOOSE x \in cs : \A y \in cs : x <= y
         IN  (IF pc[d] = "done" THEN result[d].v \o ";" ELSE "")
             \o EarlierResults(cs \ {d})
Generate_WithHistory(c, mode, message, params, response_model) ==
    /\ self.constructed
    /\ pc[c] = "idle"
    /\ pc' = [pc EXCEPT ![c] = "fan_out"]
    /\ args' = [args EXCEPT ![c] =
                  [mode |-> mode, message |-> message, params |-> params,
                   response_model |-> response_model]]
    /\ fanOutCalls' = [fanOutCalls EXCEPT ![c] =
                  Append(@, [op |-> "generate",
                             message |-> EarlierResults(Calls \ {c}) \o message,
                             params |-> params])]
    /\ task' = [task EXCEPT ![c] =
                  [i \in Units |-> IF i \in UnitsOf(self) THEN "pending" ELSE "none"]]
    /\ UNCHANGED <<self, output, order, responses, fanInCalls, result, error>>

\* generate / generate_str / generate_structured up to the first await: the
\* Fan-Out stage is invoked and creates one task per configured unit.
Generate(c, mode, message, params, response_model) ==
    /\ self.constructed
    /\ pc[c] = "idle"
    /\ pc' = [pc EXCEPT ![c] = "fan_out"]
    /\ args' = [args EXCEPT ![c] =
                  [mode |-> mode, message |-> message, params |-> params,
                   response_model |-> response_model]]
    /\ fanOutCalls' = [fanOutCalls EXCEPT ![c] =
                  Append(@, FanOutRequest(mode, message, params, response_model))]
    /\ task' = [task EXCEPT ![c] =
                  [i \in Units |-> IF i \in UnitsOf(self) THEN "pending" ELSE "none"]]
    /\ UNCHANGED <<self, output, order, responses, fanInCalls, result, error>>

\* The execution substrate starts a unit's task.
UnitStart(c, i) ==
    /\ task[c][i] = "pending"
    /\ task' = [task EXCEPT ![c][i] = "running"]
    /\ UNCHANGED <<self, pc, args, fanOutCalls, output, order, responses,
                   fanInCalls, result, error>>

\* The message the Fan-Out stage of call c was invoked with; every unit's
\* task gets a copy of it (spec.md section 4.1, dispatch policy).
TaskMessage(c) == fanOutCalls[c][Len(fanOutCalls[c])].message

\* A unit's task completes, with its output or with a UnitFailure.
UnitFinish(c, i, ok) ==
    /\ task[c][i] = "running"
    /\ task' = [task EXCEPT ![c][i] = IF ok THEN "done" ELSE "failed"]
    /\ output' = [output EXCEPT ![c][i] =
                    IF ok THEN UnitOutput(i, TaskMessage(c)) ELSE @]
    /\ order' = [order EXCEPT ![c] = Append(@, i)]
    /\ UNCHANGED <<self, pc, args, fanOutCalls, responses, fanInCalls,
                   result, error>>

\* The Fan-Out stage's result: one output per configured unit, in
\* configuration order (spec.md section 4.1).
FanOutResult(c) == [i \in UnitsOf(self) |-> output[c][i]]

AllUnitsDone(c) == \A i \in UnitsOf(self) : task[c][i] = "done"
SomeUnitFailed(c) == \E i \in UnitsOf(self) : task[c][i] = "failed"

\* self.fan_out.generate(...) has its result: every unit's task completed
\* with an output (the join of spec.md section 5).
FanOutReturned(c) == pc[c] = "fan_out" /\ AllUnitsDone(c)

\* self.fan_out.generate(...) raises: a unit failed (spec.md section 4.1,
\* failure policy).  The substrate may raise at the first failure, while
\* other tasks are still running, or later.
FanOutRaised(c) == pc[c] = "fan_out" /\ SomeUnitFailed(c)

\* A coordinator that goes on to the Fan-In without awaiting the Fan-Out.
AwaitFanOut_NotAwaited(c) == pc[c] = "fan_out"

\* A coordinator whose barrier waits for a task in every unit slot, also in
\* those its configuration left empty.
AwaitFanOut_EverySlot(c) ==
    pc[c] = "fan_out" /\ \A i \in Units : task[c][i] = "done"

\* `responses = await self.fan_out.generate(...)` (lines 94, 133, 171): the
\* call resumes after the await only with the Fan-Out stage's result.
AwaitFanOut(c) == FanOutReturned(c)

\* A coordinator that catches the Fan-Out failure and combines anyway.
FanOutRaise_Swallowed(c) ==
    /\ FanOutRaised(c)
    /\ pc' = [pc EXCEPT ![c] = "fan_in"]
    /\ responses' = [responses EXCEPT ![c] = FanOutResult(c)]
    /\ fanInCalls' = [fanInCalls EXCEPT ![c] =
          Append(@, [target |-> "fn", op |-> "__call__",
                     messages |-> FanOutResult(c), params |-> <<>>,
                     response_model |-> NoResponseModel,
                     outcome |-> "pending"])]
    /\ UNCHANGED <<self, args, fanOutCalls, task, output, order, result, error>>

\* A coordinator that dispatches again when the Fan-Out failed.
FanOutRaise_Retry(c) ==
    /\ FanOutRaised(c)
    /\ Len(fanOutCalls[c]) = 1
    /\ fanOutCalls' = [fanOutCalls EXCEPT ![c] = Append(@, @[1])]
    /\ task' = [task EXCEPT ![c] =
                  [i \in Units |-> IF i \in UnitsOf(self) THEN "pending" ELSE "none"]]
    /\ UNCHANGED <<self, pc, args, output, order, responses, fanInCalls,
                   result, error>>

\* A coordinator that answers a unit failure by dropping a unit from its
\* configured list.
FanOutRaise_DropsUnit(c) ==
    /\ FanOutRaised(c)
    /\ pc' = [pc EXCEPT ![c] = "failed"]
    /\ error' = [error EXCEPT ![c] = "UnitFailure"]
    /\ self' = [self EXCEPT !.fan_out.val.n_agents = IF @ > 0 THEN @ - 1 ELSE @]
    /\ UNCHANGED <<args, fanOutCalls, task, output, order, responses,
                   fanInCalls, result>>

\* The exception of the awaited self.fan_out.generate(...) is not caught by
\* generate / generate_str / generate_structured: it leaves the call.
FanOutRaise(c) ==
    /\ FanOutRaised(c)
    /\ pc' = [pc EXCEPT ![c] = "failed"]
    /\ error' = [error EXCEPT ![c] = "UnitFailure"]
    /\ UNCHANGED <<self, args, fanOutCalls, task, output, order, responses,
                   fanInCalls, result>>

\* ----------------------------------------------------------------- Combine
\* `if self.fan_in_fn:` (lines 105, 144, 182): reading an attribute that
\* __init__ did not assign raises AttributeError; otherwise the branch is
\* chosen by the attribute's truth value.
FanInRoute(obj) ==
    IF ~obj.fan_in_fn.set THEN "AttributeError"
    ELSE IF Truthy(obj.fan_in_fn.val) THEN "fn"
    ELSE IF ~obj.fan_in.set THEN "AttributeError"
    ELSE "aggregator"

\* A coordinator that hands the Fan-In the responses in reverse order.
RECURSIVE Reversed(_)
Reversed(s) == IF Len(s) = 0 THEN <<>> ELSE Append(Reversed(Tail(s)), s[1])
FanInRequest_Reversed(route, mode, rs, params, response_model) ==
    [target |-> "fn", op |-> "__call__", messages |-> Reversed(rs),
     params |-> <<>>, response_model |-> NoResponseModel, outcome |-> "pending"]

\* The Fan-In invocation of each mode: self.fan_in_fn(responses) (lines 106,
\* 145, 183), or self.fan_in.<mode>(messages=responses, [response_model=...,]
\* use_history=..., ...) (lines 108-116, 147-155, 185-194).
FanInRequest(route, mode, rs, params, response_model) ==
    IF route = "fn"
    THEN [target |-> "fn", op |-> "__call__", messages |-> rs,
          params |-> <<>>, response_model |-> NoResponseModel,
          outcome |-> "pending"]
    ELSE [target |-> "aggregator", op |-> mode, messages |-> rs,
          params |-> <<params>>,
          response_model |-> IF mode = "generate_structured"
                             THEN response_model ELSE NoResponseModel,
          outcome |-> "pending"]

\* A coordinator that returns the function's value as it is in every mode.
FnReturn_NoStr(mode, val) == val

\* What each mode makes of the reduction function's value: generate and
\* generate_structured return it (lines 106, 183), generate_str returns
\* str(...) of it (line 145).
FnReturn(mode, val) == IF mode = "generate_str" THEN PyStr(val) ELSE val

\* The value a finished Fan-In invocation yields to the coordinator.
FanInValueOf(obj, req) ==
    IF req.target = "fn" THEN FnValue(obj.fan_in_fn.val, req.messages)
    ELSE AggregatorValue(req.op, req.messages, req.response_model)

\* What the call returns for a finished Fan-In invocation.
CombinedResult(obj, mode, req) ==
    IF req.target = "fn" THEN FnReturn(mode, FanInValueOf(obj, req))
    ELSE FanInValueOf(obj, req)

LastFanIn(c) == fanInCalls[c][Len(fanInCalls[c])]

\* The call resumes with the responses and runs to its next await (lines
\* 104-116, 143-155, 181-194).  A function that is not async runs to its
\* end inside the call expression: it raises, or it returns the combined
\* value, and awaiting that value raises TypeError.
Combine(c) ==
    /\ AwaitFanOut(c)
    /\ LET rs == FanOutResult(c)
           a == args[c]
           route == FanInRoute(self)
           req == FanInRequest(route, a.mode, rs, a.params, a.response_model)
       IN  /\ responses' = [responses EXCEPT ![c] = rs]
           /\ IF route = "AttributeError"
              THEN /\ pc' = [pc EXCEPT ![c] = "failed"]
                   /\ error' = [error EXCEPT ![c] = "AttributeError"]
                   /\ UNCHANGED fanInCalls
              ELSE IF route = "fn" /\ ~self.fan_in_fn.val.is_async
              THEN /\ pc' = [pc EXCEPT ![c] = "failed"]
                   /\ \E raised \in BOOLEAN :
                        /\ fanInCalls' = [fanInCalls EXCEPT ![c] =
                              Append(@, [req EXCEPT !.outcome =
                                  IF raised THEN "raised" ELSE "returned"])]
                        /\ error' = [error EXCEPT ![c] =
                              IF raised THEN "FanInFailure" ELSE "TypeError"]
              ELSE /\ fanInCalls' = [fanInCalls EXCEPT ![c] = Append(@, req)]
                   /\ pc' = [pc EXCEPT ![c] = "fan_in"]
                   /\ UNCHANGED error
    /\ UNCHANGED <<self, args, fanOutCalls, task, output, order, result>>

SetOutcome(c, o) ==
    [fanInCalls EXCEPT ![c][Len(fanInCalls[c])].outcome = o]

\* A coordinator that answers a failed Fan-In with a best-effort result.
FanInFinish_Fallback(c, ok) ==
    /\ pc[c] = "fan_in"
    /\ pc' = [pc EXCEPT ![c] = "done"]
    /\ fanInCalls' = SetOutcome(c, IF ok THEN "returned" ELSE "raised")
    /\ result' = [result EXCEPT ![c] =
                    IF ok THEN CombinedResult(self, args[c].mode, LastFanIn(c))
                    ELSE ListVal(ReprList(responses[c]))]
    /\ UNCHANGED <<self, args, fanOutCalls, task, output, order, responses, error>>

\* A coordinator that keeps the Fan-In invocation on the instance, shared
\* by all calls: a call returns the value of the latest one of any call.
FanInFinish_Shared(c, ok) ==
    /\ pc[c] = "fan_in"
    /\ fanInCalls' = SetOutcome(c, IF ok THEN "returned" ELSE "raised")
    /\ LET others == {d \in Calls \ {c} : fanInCalls[d] # <<>>}
           src == IF others = {} THEN c ELSE CHOOSE d \in others : TRUE
       IN  IF ok
           THEN /\ pc' = [pc EXCEPT ![c] = "done"]
                /\ result' = [result EXCEPT ![c] =
                                CombinedResult(self, args[c].mode, LastFanIn(src))]
                /\ UNCHANGED error
           ELSE /\ pc' = [pc EXCEPT ![c] = "failed"]
                /\ error' = [error EXCEPT ![c] = "FanInFailure"]
                /\ UNCHANGED result
    /\ UNCHANGED <<self, args, fanOutCalls, task, output, order, responses>>

\* The awaited Fan-In invocation completes: its value becomes the call's
\* result (lines 118, 156, 195), or its exception leaves the call (nothing
\* catches it).
FanInFinish(c, ok) ==
    /\ pc[c] = "fan_in"
    /\ fanInCalls' = SetOutcome(c, IF ok THEN "returned" ELSE "raised")
    /\ IF ok
       THEN /\ pc' = [pc EXCEPT ![c] = "done"]
            /\ result' = [result EXCEPT ![c] =
                            CombinedResult(self, args[c].mode, LastFanIn(c))]
            /\ UNCHANGED error
       ELSE /\ pc' = [pc EXCEPT ![c] = "failed"]
            /\ error' = [error EXCEPT ![c] = "FanInFailure"]
            /\ UNCHANGED result
    /\ UNCHANGED <<self, args, fanOutCalls, task, output, order, responses>>

\* ----------------------------------------------------------- specification
Init ==
    /\ \E fan_in_agent \in FanInChoices,
          fan_out_agents \in AgentListChoices,
          fan_out_functions \in FunctionListChoices :
            self = ParallelLLM_init(fan_in_agent, fan_out_agents, fan_out_functions)
    /\ pc = [c \in Calls |-> "idle"]
    /\ args = [c \in Calls |-> NoArgs]
    /\ fanOutCalls = [c \in Calls |-> <<>>]
    /\ task = [c \in Calls |-> [i \in Units |-> "none"]]
    /\ output = [c \in Calls |-> [i \in Units |-> ""]]
    /\ order = [c \in Calls |-> <<>>]
    /\ responses = [c \in Calls |-> <<>>]
    /\ fanInCalls = [c \in Calls |-> <<>>]
    /\ result = [c \in Calls |-> NoneVal]
    /\ error = [c \in Calls |-> ""]

\* One caller issuing one call on the instance.
SeqCalls == {c \in Calls : c = 1}

CallArgs ==
    {[mode |-> m, message |-> msg, params |-> p,
      response_model |-> IF m = "generate_structured" THEN rm ELSE NoResponseModel] :
        m \in Modes, msg \in Messages, p \in CallerParams, rm \in ResponseModels}

Next ==
    \/ \E c \in SeqCalls, a \in CallArgs :
          Generate(c, a.mode, a.message, a.params, a.response_model)
    \/ \E c \in SeqCalls, i \in Units : UnitStart(c, i)
    \/ \E c \in SeqCalls, i \in Units, ok \in BOOLEAN : UnitFinish(c, i, ok)
    \/ \E c \in SeqCalls : FanOutRaise(c)
    \/ \E c \in SeqCalls : Combine(c)
    \/ \E c \in SeqCalls, ok \in BOOLEAN : FanInFinish(c, ok)

Spec == Init /\ [][Next]_vars

\* ------------------------------------------- several calls on one instance
ConcUnits == 2      \* longest unit list explored with several calls

\* Instances on which calls can be issued, with at most ConcUnits units and
\* an aggregator unit, an async or a plain function on the Fan-In side.
InitConc ==
    /\ Init
    /\ self.constructed
    /\ NumUnits(self) <= ConcUnits
    /\ self.fan_out_functions = NoneList
    /\ self.fan_in_agent.body \in {"-", "join"}

\* Two calls issued on the same instance at any time: one after the other,
\* or the second while the first is still in flight.
ConcCalls == {c \in Calls : c <= 2}
ConcArgs == {a \in CallArgs : a.params = DefaultParams}
\* The two calls are given different messages: slot 1 "X", slot 2 "Y".
ConcArgsOf(c) == {a \in ConcArgs : a.message = IF c = 1 THEN "X" ELSE "Y"}

NextConc ==
    \/ \E c \in ConcCalls : \E a \in ConcArgsOf(c) :
          Generate(c, a.mode, a.message, a.params, a.response_model)
    \/ \E c \in ConcCalls, i \in Units : UnitStart(c, i)
    \/ \E c \in ConcCalls, i \in Units, ok \in BOOLEAN : UnitFinish(c, i, ok)
    \/ \E c \in ConcCalls : FanOutRaise(c)
    \/ \E c \in ConcCalls : Combine(c)
    \/ \E c \in ConcCalls, ok \in BOOLEAN : FanInFinish(c, ok)

SpecConc == InitConc /\ [][NextConc]_vars

\* --------------------------------------------------------- fair scheduling
\* The event loop resumes a coroutine that can run (UnitStart, FanOutRaise,
\* Combine), and every unit invocation and Fan-In invocation that was
\* started completes, with a result or with a failure.
Fairness ==
    \A c \in SeqCalls :
        /\ \A i \in Units :
              /\ WF_vars(UnitStart(c, i))
              /\ WF_vars(\E ok \in BOOLEAN : UnitFinish(c, i, ok))
        /\ WF_vars(FanOutRaise(c))
        /\ WF_vars(Combine(c))
        /\ WF_vars(\E ok \in BOOLEAN : FanInFinish(c, ok))

InitLive == Init /\ NumUnits(self) <= ConcUnits

SpecLive == InitLive /\ [][Next]_vars /\ Fairness

\* ------------------------- the Fan-In side swapped, the Fan-Out units fixed
\* A coordinator built with an aggregator unit runs a call (slot 1); then a
\* coordinator is built with a reduction function and the same unit lists,
\* and runs the same call (slot 2).
InitSwap ==
    /\ Init
    /\ self.constructed
    /\ self.fan_in_agent = AggregatorAgent
    /\ NumUnits(self) <= ConcUnits
    /\ self.fan_out_functions = NoneList

FirstRun(a) ==
    /\ ~IsCallable(self.fan_in_agent)
    /\ Generate(1, a.mode, a.message, a.params, a.response_model)

SwapFanIn(fn) ==
    /\ ~IsCallable(self.fan_in_agent)
    /\ Finished(1)
    /\ self' = ParallelLLM_init(fn, self.fan_out_agents, self.fan_out_functions)
    /\ UNCHANGED <<pc, args, fanOutCalls, task, output, order, responses,
                   fanInCalls, result, error>>

SecondRun ==
    /\ IsCallable(self.fan_in_agent)
    /\ Generate(2, args[1].mode, args[1].message, args[1].params,
                args[1].response_model)

SwapCalls == {c \in Calls : c <= 2}

NextSwap ==
    \/ \E a \in CallArgs : FirstRun(a)
    \/ \E fn \in FanInFunctions : SwapFanIn(fn)
    \/ SecondRun
    \/ \E c \in SwapCalls, i \in Units : UnitStart(c, i)
    \/ \E c \in SwapCalls, i \in Units, ok \in BOOLEAN : UnitFinish(c, i, ok)
    \/ \E c \in SwapCalls : FanOutRaise(c)
    \/ \E c \in SwapCalls : Combine(c)
    \/ \E c \in SwapCalls, ok \in BOOLEAN : FanInFinish(c, ok)

SpecSwap == InitSwap /\ [][NextSwap]_vars

\* ------------------------------------------------------------------ claims
ExpectedResponses(c) == [i \in UnitsOf(self) |-> UnitOutput(i, args[c].message)]

\* C1: in each of the three modes, once a Fan-Out unit of a call has failed
\* the call never returns a result, it fails with the unit failure, and the
\* Fan-In strategy (function or aggregator) is never invoked in that call.
C1_FanOutFailureFailsCall ==
    \A c \in Calls :
        SomeUnitFailed(c) =>
            /\ fanInCalls[c] = <<>>
            /\ pc[c] \in {"fan_out", "failed"}
            /\ (pc[c] = "failed" => error[c] = "UnitFailure")
            /\ result[c] = NoneVal

\* a generate_structured call over three units failed with the unit
\* failure while another unit's task was still running; no Fan-In invocation
C1_Witness ==
    \E c \in Calls :
        /\ NumUnits(self) = 3
        /\ args[c].mode = "generate_structured"
        /\ pc[c] = "failed" /\ error[c] = "UnitFailure"
        /\ task[c][2] = "failed" /\ task[c][3] = "running"
        /\ fanInCalls[c] = <<>>

\* C2: whatever the completion order of the unit tasks, the sequence handed
\* to the Fan-In has one element per configured unit and its i-th element
\* is the output of the i-th configured unit.
C2_ResponsesInConfigurationOrder ==
    \A c \in Calls :
        \A k \in 1..Len(fanInCalls[c]) :
            /\ Len(fanInCalls[c][k].messages) = NumUnits(self)
            /\ fanInCalls[c][k].messages = ExpectedResponses(c)
            /\ responses[c] = ExpectedResponses(c)

\* three units completed in the order 3, 1, 2 and the Fan-In function got
\* <<"A", "B", "C">>
C2_Witness ==
    \E c \in Calls :
        /\ order[c] = <<3, 1, 2>>
        /\ Len(fanInCalls[c]) = 1
        /\ fanInCalls[c][1].messages = <<"A", "B", "C">>

\* C3: join barrier: whenever the Fan-In of a call has been invoked, is
\* running or has finished, no Fan-Out task of that call is pending or
\* running.
C3_JoinBarrier ==
    \A c \in Calls :
        (fanInCalls[c] # <<>> \/ pc[c] \in {"fan_in", "done"}) =>
            \A i \in UnitsOf(self) : task[c][i] \notin {"pending", "running"}

\* the Fan-In of a call over three units is running, all three tasks done
C3_Witness ==
    \E c \in Calls :
        /\ pc[c] = "fan_in"
        /\ NumUnits(self) = 3
        /\ \A i \in 1..3 : task[c][i] = "done"

\* C4: with an aggregator unit on the Fan-In side and all Fan-Out units
\* succeeding, each mode invokes the aggregator's mode of the same name
\* (generate_structured with response_model) once on the full ordered
\* Fan-Out results, and a call that ends without a unit or aggregator
\* failure has returned the aggregator's result.
C4_AggregatorModeInvoked ==
    \A c \in Calls :
        (self.fan_in_agent.kind = "agent" /\ Finished(c)
            /\ error[c] \notin {"UnitFailure", "FanInFailure"}) =>
            /\ pc[c] = "done"
            /\ Len(fanInCalls[c]) = 1
            /\ fanInCalls[c][1].target = "aggregator"
            /\ fanInCalls[c][1].op = args[c].mode
            /\ fanInCalls[c][1].messages = ExpectedResponses(c)
            /\ fanInCalls[c][1].response_model = args[c].response_model
            /\ result[c] = AggregatorValue(args[c].mode, ExpectedResponses(c),
                                           args[c].response_model)

\* C5: with a plain function f on the Fan-In side and all Fan-Out units
\* succeeding, each mode calls f once on the ordered Fan-Out results, never
\* the aggregator, and a call in which neither a unit nor f failed has
\* returned f(results), as a string in generate_str.
C5_FunctionReductionReturns ==
    \A c \in Calls :
        (self.fan_in_agent.kind = "fn" /\ Finished(c)
            /\ error[c] \notin {"UnitFailure", "FanInFailure"}) =>
            /\ pc[c] = "done"
            /\ Len(fanInCalls[c]) = 1
            /\ fanInCalls[c][1].target = "fn"
            /\ fanInCalls[c][1].messages = ExpectedResponses(c)
            /\ result[c] = FnReturn(args[c].mode,
                                    FnValue(self.fan_in_agent, ExpectedResponses(c)))

\* C6: every generate_str call that returned has returned a string; with a
\* reduction function the string is str(...) of the function's value, with
\* an aggregator unit it is the aggregator's value as it is.
C6_GenerateStrReturnsString ==
    \A c \in Calls :
        (pc[c] = "done" /\ args[c].mode = "generate_str") =>
            /\ IsStr(result[c])
            /\ Len(fanInCalls[c]) = 1
            /\ LET req == fanInCalls[c][1]
               IN  IF req.target = "fn"
                   THEN result[c] = PyStr(FanInValueOf(self, req))
                   ELSE result[c] = FanInValueOf(self, req)

\* generate_str returned the string "3" where the function returned the
\* integer 3
C6_Witness ==
    \E c \in Calls :
        /\ pc[c] = "done" /\ args[c].mode = "generate_str"
        /\ self.fan_in_agent.body = "count"
        /\ FanInValueOf(self, fanInCalls[c][1]) = IntVal("3")
        /\ result[c] = StrVal("3")

\* C7: when the Fan-In invocation of a call raised, the call has failed
\* with that failure: the Fan-In was invoked once only (no retry, no other
\* strategy) and the call returned nothing.
C7_FanInFailureFailsCall ==
    \A c \in Calls :
        (\E k \in 1..Len(fanInCalls[c]) : fanInCalls[c][k].outcome = "raised") =>
            /\ pc[c] = "failed"
            /\ error[c] = "FanInFailure"
            /\ Len(fanInCalls[c]) = 1
            /\ result[c] = NoneVal

\* an async reduction function raised after three units succeeded
C7_Witness ==
    \E c \in Calls :
        /\ NumUnits(self) = 3 /\ AllUnitsDone(c)
        /\ self.fan_in_agent.kind = "fn" /\ self.fan_in_agent.is_async
        /\ Len(fanInCalls[c]) = 1 /\ fanInCalls[c][1].outcome = "raised"
        /\ pc[c] = "failed"

\* the number of units the caller configured
ConfiguredUnits == ListLen(self.fan_out_agents) + ListLen(self.fan_out_functions)

C9_SyncOrAsyncFunctionCompletes ==
    \A c \in Calls :
        (Finished(c) /\ Len(fanInCalls[c]) = 1
            /\ fanInCalls[c][1].target = "fn"
            /\ fanInCalls[c][1].outcome = "returned") =>
            /\ pc[c] = "done"
            /\ result[c] = FnReturn(args[c].mode, FanInValueOf(self, fanInCalls[c][1]))

\* C10: the generation parameters the Fan-Out stage and the Fan-In
\* aggregator unit are invoked with are the ones the caller passed.
C10_ParamsPassedThrough ==
    \A c \in Calls :
        /\ \A k \in 1..Len(fanOutCalls[c]) : fanOutCalls[c][k].params = args[c].params
        /\ \A k \in 1..Len(fanInCalls[c]) :
              fanInCalls[c][k].target = "aggregator" =>
                  fanInCalls[c][k].params = <<args[c].params>>

\* the caller overrode all six parameters and the Fan-Out stage, whose
\* units all completed, was invoked with exactly those
C10_Witness ==
    \E c \in Calls :
        /\ args[c].params = CustomParams
        /\ Len(fanOutCalls[c]) = 1
        /\ fanOutCalls[c][1].params = CustomParams
        /\ fanOutCalls[c][1].params # DefaultParams
        /\ AllUnitsDone(c) /\ Finished(c)

\* C11: dispatch is concurrent: once a call has invoked the Fan-Out, every
\* configured unit has a task, a pending task can start whatever the state
\* of the other units' tasks (no unit waits for another), and every unit
\* that produced an output produced it for the call's own message.
C11_ConcurrentDispatch ==
    \A c \in Calls :
        pc[c] # "idle" =>
            \A i \in UnitsOf(self) :
                /\ task[c][i] # "none"
                /\ task[c][i] = "pending" => ENABLED UnitStart(c, i)
                /\ task[c][i] = "done" =>
                       output[c][i] = UnitOutput(i, args[c].message)
                /\ TaskMessage(c) = args[c].message

\* the three unit invocations of one call are in flight at once
C11_Witness ==
    \E c \in Calls :
        /\ NumUnits(self) = 3
        /\ pc[c] = "fan_out"
        /\ \A i \in 1..3 : task[c][i] = "running"

\* C16: in the function-reduction path generate_structured returns exactly
\* the value the reduction function returned, conforming to response_model
\* or not: whenever the function returned a value after a successful
\* Dispatch, the call has returned that very value, and response_model was
\* not passed to the function.
C16_StructuredReturnsFunctionValue ==
    \A c \in Calls :
        (Finished(c) /\ args[c].mode = "generate_structured"
            /\ Len(fanInCalls[c]) = 1
            /\ fanInCalls[c][1].target = "fn"
            /\ fanInCalls[c][1].outcome = "returned") =>
            /\ pc[c] = "done"
            /\ result[c] = FanInValueOf(self, fanInCalls[c][1])
            /\ fanInCalls[c][1].response_model = NoResponseModel

\* C17: the Dispatch phase is the same in the three modes: each invokes the
\* Fan-Out stage's generate, with the caller's message and parameters and
\* nothing else (no response_model), and the responses a call resumes with
\* are the ordered unit outputs for its message.
C17_SameDispatchInAllModes ==
    \A c \in Calls :
        /\ \A k \in 1..Len(fanOutCalls[c]) :
              fanOutCalls[c][k] =
                  [op |-> "generate", message |-> args[c].message,
                   params |-> args[c].params]
        /\ responses[c] # <<>> => responses[c] = ExpectedResponses(c)

\* a generate_structured call dispatched through the Fan-Out's generate and
\* resumed with <<"a", "b", "c">>
C17_Witness ==
    \E c \in Calls :
        /\ args[c].mode = "generate_structured"
        /\ args[c].response_model = "Verdict"
        /\ fanOutCalls[c] = <<[op |-> "generate", message |-> "Y",
                               params |-> args[c].params]>>
        /\ responses[c] = <<"a", "b", "c">>

\* C18: exactly once: no call ever invokes the Fan-Out stage or the Fan-In
\* strategy more than once, the Fan-In only after the Fan-Out; a call that
\* returned has invoked each exactly once and every configured unit's task
\* completed exactly once.
C18_ExactlyOnce ==
    \A c \in Calls :
        /\ Len(fanOutCalls[c]) <= 1
        /\ Len(fanInCalls[c]) <= 1
        /\ fanInCalls[c] # <<>> => (Len(fanOutCalls[c]) = 1 /\ AllUnitsDone(c))
        /\ pc[c] = "done" =>
              /\ Len(fanOutCalls[c]) = 1
              /\ Len(fanInCalls[c]) = 1
              /\ Len(order[c]) = NumUnits(self)
              /\ \A i \in UnitsOf(self) :
                    Cardinality({k \in 1..Len(order[c]) : order[c][k] = i}) = 1

\* a generate call over three units returned after one Fan-Out and one
\* Fan-In invocation
C18_Witness ==
    \E c \in Calls :
        /\ pc[c] = "done" /\ NumUnits(self) = 3
        /\ Len(fanOutCalls[c]) = 1 /\ Len(fanInCalls[c]) = 1
        /\ Len(order[c]) = 3

\* C12: the coordinator holds no running history: its history is None in
\* every state, and the message it gives the Fan-Out stage in any call,
\* a second call on the same instance included, is that call's own message
\* and nothing else.
C12_NoCoordinatorHistory ==
    /\ self.history = NoneVal
    /\ \A c \in Calls :
          \A k \in 1..Len(fanOutCalls[c]) :
              /\ fanOutCalls[c][k].message = args[c].message
              /\ fanOutCalls[c][k].message \in Messages

\* the first call returned "A|B" for "X"; the second call on the same
\* instance dispatched "Y" alone and its units answered for "Y"
C12_Witness ==
    /\ pc[1] = "done" /\ args[1].message = "X" /\ result[1] = StrVal("A|B")
    /\ pc[2] = "fan_in"
    /\ fanOutCalls[2][1].message = "Y"
    /\ responses[2] = <<"a", "b">>

\* C13: two calls on one instance are independent under every interleaving:
\* the Fan-In of a call gets the Fan-Out results of that call's own message,
\* a call that returned has returned the combination of its own results,
\* and a call fails only through a failure of its own unit or Fan-In.
C13_ConcurrentCallsIndependent ==
    \A c \in Calls :
        /\ \A k \in 1..Len(fanInCalls[c]) :
              fanInCalls[c][k].messages = ExpectedResponses(c)
        /\ responses[c] # <<>> => responses[c] = ExpectedResponses(c)
        /\ pc[c] = "done" =>
              result[c] = CombinedResult(self, args[c].mode,
                              FanInRequest(FanInRoute(self), args[c].mode,
                                           ExpectedResponses(c), args[c].params,
                                           args[c].response_model))
        /\ error[c] = "UnitFailure" => SomeUnitFailed(c)
        /\ error[c] = "FanInFailure" =>
              (fanInCalls[c] # <<>> /\ LastFanIn(c).outcome = "raised")

\* the first call failed on its second unit while the second call, issued
\* on the same instance with another message, returned its own "a|b"
C13_Witness ==
    /\ pc[1] = "failed" /\ error[1] = "UnitFailure"
    /\ task[1][1] = "running" /\ task[1][2] = "failed"
    /\ args[1].message = "X" /\ args[2].message = "Y"
    /\ pc[2] = "done" /\ result[2] = StrVal("a|b")

\* C15: what construction bound never changes: no step changes the
\* instance (Fan-In value, fan_in_fn / fan_in, unit lists, Fan-Out stage),
\* and every Fan-In invocation of every call goes to the one strategy given
\* by the type of the Fan-In value: the function if it is callable, the
\* aggregator unit otherwise.
StrategyOf(obj) == IF IsCallable(obj.fan_in_agent) THEN "fn" ELSE "aggregator"
C15_BindingsFixed ==
    /\ [](\A c \in Calls :
            \A k \in 1..Len(fanInCalls[c]) :
                fanInCalls[c][k].target = StrategyOf(self))
    /\ [](self = ParallelLLM_init(self.fan_in_agent, self.fan_out_agents,
                                  self.fan_out_functions))
    /\ [][self' = self]_vars

\* two calls on an instance built with a function both went to the function,
\* one of them after a failed call
C15_Witness ==
    /\ IsCallable(self.fan_in_agent)
    /\ pc[1] = "done" /\ pc[2] = "failed" /\ error[2] = "FanInFailure"
    /\ fanInCalls[1][1].target = "fn" /\ fanInCalls[2][1].target = "fn"
    /\ NumUnits(self) = 2

\* C14: with the unit lists, the message and the params held fixed, the
\* coordinator built with an aggregator unit (slot 1) and the one built with
\* a reduction function (slot 2) run the same Dispatch: the same Fan-Out
\* invocation, tasks for the same units, the same output of each unit, and,
\* where the units fail alike, the same ordered results or the same Fan-Out
\* failure at the Combine phase.
DispatchOutcome(c) ==
    [failure |-> error[c] = "UnitFailure", responses |-> responses[c]]
C14_SameDispatchWhateverFanIn ==
    pc[2] # "idle" =>
        /\ IsCallable(self.fan_in_agent)
        /\ \A k \in 1..Len(fanInCalls[1]) : fanInCalls[1][k].target # "fn"
        /\ args[2] = args[1]
        /\ fanOutCalls[2] = fanOutCalls[1]
        /\ \A i \in Units :
              /\ (task[2][i] = "none") <=> (task[1][i] = "none")
              /\ (task[1][i] = "done" /\ task[2][i] = "done")
                    => output[2][i] = output[1][i]
        /\ (Finished(2) \/ pc[2] = "fan_in") =>
              /\ error[2] = "UnitFailure" <=> SomeUnitFailed(2)
              /\ error[1] = "UnitFailure" <=> SomeUnitFailed(1)
              /\ (SomeUnitFailed(1) <=> SomeUnitFailed(2))
                    => DispatchOutcome(2) = DispatchOutcome(1)

\* both coordinators got <<"A", "B">> out of a Dispatch with the caller's
\* own parameters; the first then failed in Combine, the second returned
C14_Witness ==
    /\ args[1].params = CustomParams
    /\ pc[1] = "failed" /\ error[1] = "AttributeError"
    /\ responses[1] = <<"A", "B">>
    /\ pc[2] = "done" /\ responses[2] = <<"A", "B">>
    /\ fanInCalls[2][1].target = "fn"

\* C19: under fair scheduling, with every unit invocation and the Fan-In
\* invocation eventually completing, a call that is suspended at the join
\* barrier or at the Fan-In invocation eventually finishes: it returns a
\* combined result or it fails.
C19_EveryCallFinishes ==
    \A c \in Calls :
        InFlight(c) ~> (\/ pc[c] = "done" /\ result[c] # NoneVal
                        \/ pc[c] = "failed" /\ error[c] # "")

\* a call over two units that passed the join barrier and the Fan-In
\* invocation and returned
C19_Witness ==
    /\ NumUnits(self) = 2
    /\ Len(order[1]) = 2
    /\ Len(fanInCalls[1]) = 1 /\ LastFanIn(1).outcome = "returned"
    /\ pc[1] = "done" /\ result[1] # NoneVal

====
